---- MODULE Spec2Model ----
(***************************************************************************)
(* Model of the regexp syntax tree and its canonical formatter             *)
(* (syntax/ast.go, syntax/operation.go).                                   *)
(*                                                                         *)
(* A Regexp is a Source string plus a tree of Expr nodes.  FormatSyntax    *)
(* walks the tree recursively; the model runs the recursion with an        *)
(* explicit stack of frames, one node visit per step, for two independent  *)
(* calls, so that calls can be interleaved.  A Go run-time panic (index    *)
(* out of range, slice bounds out of range) unwinds the whole call and is  *)
(* recorded as the call's outcome.                                         *)
(*                                                                         *)
(* Offsets are 0-based as in Go; TLA+ sequences and strings are 1-based,   *)
(* so Args[i] of the code is Args[i + 1] here and Source[b:e] is           *)
(* SubSeq(Source, b + 1, e).  Operation codes are the iota values of       *)
(* operation.go, the file that declares OpPossessive (ast.go repeats the   *)
(* block without it).                                                      *)
(***************************************************************************)
EXTENDS Integers, Sequences, FiniteSets, TLC

VARIABLES re, stack, result

vars == <<re, stack, result>>

(***************************************************************************)
(* Operation codes: const block of operation.go (iota from 0).             *)
(***************************************************************************)
OpNone == 0
OpConcat == 1
OpDot == 2
OpAlt == 3
OpStar == 4
OpPlus == 5
OpQuestion == 6
OpNonGreedy == 7
OpPossessive == 8
OpCaret == 9
OpDollar == 10
OpLiteral == 11
OpChar == 12
OpString == 13
OpQuote == 14
OpEscape == 15
OpEscapeMeta == 16
OpEscapeOctal == 17
OpEscapeHex == 18
OpEscapeHexFull == 19
OpEscapeUni == 20
OpEscapeUniFull == 21
OpCharClass == 22
OpNegCharClass == 23
OpCharRange == 24
OpPosixClass == 25
OpRepeat == 26
OpCapture == 27
OpNamedCapture == 28
OpGroup == 29
OpGroupWithFlags == 30
OpFlagOnlyGroup == 31
OpNone2 == 32

\* type Operation byte: the largest value a tag can hold.
MaxByte == 255

(***************************************************************************)
(* Bounds of the model.                                                    *)
(***************************************************************************)
\* Tags OpNone2 + 1 .. MaxOp stand for "a future/unknown variant".
MaxOp == 34
\* Longest Args sequence of a root node.
MaxArgs == 2

(***************************************************************************)
(* Data model: Position, Expr, Regexp.                                     *)
(***************************************************************************)
Node(op, b, e, args) == [Pos |-> [Begin |-> b, End |-> e], Op |-> op, Args |-> args]

Begin(e) == e.Pos.Begin

End(e) == e.Pos.End

Regexp(src, e) == [Source |-> src, Expr |-> e]

(***************************************************************************)
(* Outcome of a call: a string, or a run-time panic.                       *)
(***************************************************************************)
Ok(s) == [status |-> "ok", s |-> s]

PANIC == [status |-> "panic", s |-> ""]

NONE == [status |-> "none", s |-> ""]

\* ExprString slicing to the end of Source: re.Source[e.Begin():].
ExprStringToEnd(r, e) ==
  IF Begin(e) <= Len(r.Source)
  THEN Ok(SubSeq(r.Source, Begin(e) + 1, Len(r.Source)))
  ELSE [status |-> "panic", s |-> ""]

\* re.Source[e.Begin():e.End()]: Go panics unless Begin <= End <= len(Source).
ExprString(r, e) ==
  IF Begin(e) <= End(e) /\ End(e) <= Len(r.Source)
  THEN Ok(SubSeq(r.Source, Begin(e) + 1, End(e)))
  ELSE PANIC

\* e.Args[i] with the code's 0-based i: Go panics when i >= len(e.Args).
HasArg(e, i) == i < Len(e.Args)

Arg(e, i) == e.Args[i + 1]

(***************************************************************************)
(* Library functions the formatter calls.                                  *)
(***************************************************************************)
Digit(d) == <<"0", "1", "2", "3", "4", "5", "6", "7", "8", "9">>[d + 1]

\* Itoa with the tens and hundreds dropped.
ItoaLastDigit(n) == Digit(n % 10)

\* The %d verb of fmt.Sprintf on an Operation (a byte): decimal, no padding.
RECURSIVE Itoa(_)
Itoa(n) == IF n < 10 THEN Digit(n) ELSE Itoa(n \div 10) \o Digit(n % 10)

\* Join that writes the separator after every part, the last included.
RECURSIVE JoinTrailing(_, _)
JoinTrailing(parts, sep) ==
  IF Len(parts) = 0 THEN "" ELSE parts[1] \o sep \o JoinTrailing(Tail(parts), sep)

\* strings.Join(parts, sep)
RECURSIVE Join(_, _)
Join(parts, sep) ==
  IF Len(parts) = 0 THEN ""
  ELSE IF Len(parts) = 1 THEN parts[1]
  ELSE parts[1] \o sep \o Join(Tail(parts), sep)

(***************************************************************************)
(* formatExprSyntax, split into the children a node's rule formats         *)
(* recursively (Visits) and the text the rule builds from their renderings *)
(* (Render).                                                               *)
(***************************************************************************)
LeafTextOps ==
  {OpString, OpEscape, OpEscapeMeta, OpEscapeOctal, OpEscapeUni, OpEscapeUniFull,
   OpEscapeHex, OpEscapeHexFull, OpPosixClass}

ListOps == {OpCharClass, OpNegCharClass, OpConcat, OpAlt}

FirstArgOps ==
  {OpRepeat, OpCapture, OpNamedCapture, OpGroup, OpGroupWithFlags, OpFlagOnlyGroup,
   OpPlus, OpStar, OpQuestion, OpNonGreedy}

\* The 0-based indexes i of the calls formatExprSyntax(re, e.Args[i]) that the
\* rule of e.Op makes, in evaluation order.
Visits(e) ==
  CASE e.Op \in FirstArgOps -> <<0>>
    [] e.Op = OpCharRange -> <<0, 1>>
    [] e.Op \in ListOps -> [i \in 1..Len(e.Args) |-> i - 1]
    [] OTHER -> <<>>

RECURSIVE formatExprSyntax(_, _)

\* ArgString formatting the argument as a sub-expression instead.
ArgStringFormatted(r, e, i) ==
  IF HasArg(e, i) THEN formatExprSyntax(r, Arg(e, i)) ELSE PANIC

\* re.ExprString(e.Args[i]): the index, then the slice, may panic.
ArgString(r, e, i) == IF HasArg(e, i) THEN ExprString(r, Arg(e, i)) ELSE PANIC

\* SprintfText with the text argument left out of the format.
SprintfTextDropped(head, part, text) ==
  IF text.status = "panic" THEN PANIC ELSE Ok(head \o part \o ")")

\* fmt.Sprintf(head + "%s %s)", part, text) with text = re.ExprString(e.Args[1])
SprintfText(head, part, text) ==
  IF text.status = "panic" THEN PANIC ELSE Ok(head \o part \o " " \o text.s \o ")")

\* QuoteBrace without the case "}".
QuoteBraceOpenOnly(s) == IF s = "{" THEN "'{'" ELSE s

\* The inner switch on the text of a Char or Literal node.
QuoteBrace(s) == IF s = "{" THEN "'{'" ELSE IF s = "}" THEN "'}'" ELSE s

\* SprintfRange with the format "%s - %s".
SprintfRangeSpaced(lower, upper) == lower \o " - " \o upper

\* fmt.Sprintf("%s-%s", lower, upper)
SprintfRange(lower, upper) == lower \o "-" \o upper

\* fmt.Sprintf("<op=%d>", e.Op)
SprintfOp(op) == "<op=" \o Itoa(op) \o ">"

\* The string the rule of e.Op returns, given in parts the renderings of the
\* children it formats (Visits), none of which panicked.
Render(r, e, parts) ==
  CASE e.Op \in {OpChar, OpLiteral} ->
         LET s == ExprString(r, e)
         IN  IF s.status = "panic" THEN PANIC ELSE Ok(QuoteBrace(s.s))
    [] e.Op \in LeafTextOps -> ExprString(r, e)
    [] e.Op = OpRepeat -> SprintfText("(repeat ", parts[1], ArgString(r, e, 1))
    [] e.Op = OpCaret -> Ok("^")
    [] e.Op = OpDollar -> Ok("$")
    [] e.Op = OpDot -> Ok(".")
    [] e.Op = OpQuote ->
         LET s == ExprString(r, e)
         IN  IF s.status = "panic" THEN PANIC ELSE Ok("(q " \o s.s \o ")")
    [] e.Op = OpCharRange -> Ok(SprintfRange(parts[1], parts[2]))
    [] e.Op = OpCharClass -> Ok("[" \o Join(parts, " ") \o "]")
    [] e.Op = OpNegCharClass -> Ok("[^" \o Join(parts, " ") \o "]")
    [] e.Op = OpConcat -> Ok("{" \o Join(parts, " ") \o "}")
    [] e.Op = OpAlt -> Ok("(or " \o Join(parts, " ") \o ")")
    [] e.Op = OpCapture -> Ok("(capture " \o parts[1] \o ")")
    [] e.Op = OpNamedCapture -> SprintfText("(capture ", parts[1], ArgString(r, e, 1))
    [] e.Op = OpGroup -> Ok("(group " \o parts[1] \o ")")
    [] e.Op = OpGroupWithFlags -> SprintfText("(group ", parts[1], ArgString(r, e, 1))
    [] e.Op = OpFlagOnlyGroup -> Ok("(flags " \o parts[1] \o ")")
    [] e.Op = OpPlus -> Ok("(+ " \o parts[1] \o ")")
    [] e.Op = OpStar -> Ok("(* " \o parts[1] \o ")")
    [] e.Op = OpQuestion -> Ok("(? " \o parts[1] \o ")")
    [] e.Op = OpNonGreedy -> Ok("(non-greedy " \o parts[1] \o ")")
    [] OTHER -> Ok(SprintfOp(e.Op))

\* formatExprSyntax(re, e) as one recursive function: the value of the call.
formatExprSyntax(r, e) ==
  LET v == Visits(e)
  IN  IF \E i \in 1..Len(v) : ~HasArg(e, v[i]) THEN PANIC
      ELSE LET rs == [i \in 1..Len(v) |-> formatExprSyntax(r, Arg(e, v[i]))]
           IN  IF \E i \in 1..Len(v) : rs[i].status = "panic" THEN PANIC
               ELSE Render(r, e, [i \in 1..Len(v) |-> rs[i].s])

FormatSyntax(r) == formatExprSyntax(r, r.Expr)

(***************************************************************************)
(* Inputs.  The producer of trees is outside the code, so the trees are    *)
(* drawn from bounded families that hold well-formed and malformed nodes.  *)
(***************************************************************************)
SourceText == "a09{}"

\* Values of the Operation byte: every declared tag, the tags just above
\* OpNone2, and the largest byte.
AllOps == (OpNone..MaxOp) \cup {MaxByte}

\* <<Begin, End>> of root nodes: "a", "0", "{", "}", "", "a0", "{}", then
\* Begin > End and End > len(Source).
Spans == {<<0, 1>>, <<1, 2>>, <<3, 4>>, <<4, 5>>, <<0, 0>>, <<0, 2>>, <<3, 5>>,
          <<2, 1>>, <<4, 6>>}

KChar == Node(OpChar, 0, 1, <<>>)

KBrace == Node(OpLiteral, 3, 4, <<>>)

KStr == Node(OpString, 1, 3, <<>>)

\* A sentinel tag on a node whose span lies outside Source.
KNone == Node(OpNone, 4, 6, <<>>)

KRange == Node(OpCharRange, 1, 3, <<Node(OpChar, 1, 2, <<>>), Node(OpChar, 2, 3, <<>>)>>)

\* A Star that lacks its argument.
KStarBad == Node(OpStar, 0, 1, <<>>)

\* The empty pattern.
KEmpty == Node(OpConcat, 0, 0, <<>>)

\* A group around a literal "}".
KGroup == Node(OpGroup, 3, 5, <<Node(OpChar, 4, 5, <<>>)>>)

Kids == {KChar, KBrace, KStr, KNone, KRange, KStarBad, KEmpty, KGroup}

ArgSeqs(n) == UNION {[1..k -> Kids] : k \in 0..n}

\* Every tag over every span, without Args and with one (unused or used) Arg.
TextFamily ==
  {Node(op, sp[1], sp[2], args) : op \in AllOps, sp \in Spans, args \in {<<>>, <<KChar>>}}

\* The tags whose rule or documentation gives them Args, over every Args
\* sequence of up to MaxArgs children.
ArgOps == ListOps \cup FirstArgOps \cup {OpCharRange, OpPossessive, OpLiteral}

StructFamily ==
  {Node(op, 0, Len(SourceText), args) : op \in ArgOps, args \in ArgSeqs(MaxArgs)}

Inputs == {Regexp(SourceText, e) : e \in TextFamily \cup StructFamily}

\* Trees for comparing two calls: leaves with the same or different text
\* under different leaf variants, every joined variant over them, wrappers,
\* text arguments, and a second Source holding the same texts elsewhere.
AltSource == "0a"

PChar == Node(OpChar, 0, 1, <<>>)

PLit == Node(OpLiteral, 0, 1, <<>>)

PStr == Node(OpString, 1, 2, <<>>)

PWide == Node(OpLiteral, 0, 2, <<>>)

PLeaves == {PChar, PLit, PStr, PWide}

PSeqs ==
  {<<>>} \cup {<<a>> : a \in PLeaves} \cup {<<a, b>> : a \in PLeaves, b \in PLeaves}

PJoined == {Node(op, 0, 2, args) : op \in ListOps, args \in PSeqs}

PWrapped ==
  {Node(op, 0, 2, <<x>>) :
     op \in {OpStar, OpPlus, OpQuestion, OpNonGreedy, OpPossessive, OpCapture, OpGroup,
             OpFlagOnlyGroup},
     x \in {PChar, PStr, PWide, Node(OpConcat, 0, 1, <<PChar>>)}}

PPaired ==
  {Node(op, 0, 2, <<x, t>>) :
     op \in {OpRepeat, OpNamedCapture, OpGroupWithFlags, OpCharRange},
     x \in {PChar, PLit, PStr}, t \in {PChar, PStr}}

PSingles ==
  PLeaves \cup
    {Node(OpDot, 0, 0, <<>>), Node(OpCaret, 0, 0, <<>>), Node(OpDollar, 0, 0, <<>>),
     Node(OpLiteral, 0, 2, <<PChar, Node(OpChar, 1, 2, <<>>)>>),
     Node(OpCharClass, 0, 0, <<Node(OpCaret, 0, 0, <<>>)>>),
     Node(OpStar, 0, 1, <<>>)}

PAlt ==
  {Node(OpChar, 1, 2, <<>>),
   Node(OpConcat, 0, 2, <<Node(OpChar, 1, 2, <<>>), Node(OpString, 0, 1, <<>>)>>),
   Node(OpConcat, 0, 2, <<Node(OpString, 0, 1, <<>>), Node(OpChar, 1, 2, <<>>)>>)}

PairInputs ==
  {Regexp(SourceText, e) : e \in PJoined \cup PWrapped \cup PPaired \cup PSingles}
    \cup {Regexp(AltSource, e) : e \in PAlt}

(***************************************************************************)
(* The state machine.  re[p] is the argument of call p; stack[p] is its    *)
(* recursion stack, one frame per active formatExprSyntax call, holding    *)
(* the path of its node from the root and the renderings of the children   *)
(* formatted so far; result[p] is what FormatSyntax returned.              *)
(***************************************************************************)
Runners == {1, 2}

RECURSIVE NodeAt(_, _)
NodeAt(e, path) == IF path = <<>> THEN e ELSE NodeAt(e.Args[Head(path)], Tail(path))

Top(p) == stack[p][Len(stack[p])]

TopNode(p) == NodeAt(re[p].Expr, Top(p).path)

\* The frame's next child index into Visits (1-based).
NextVisit(p) == Len(Top(p).parts) + 1

Init ==
  /\ re \in {<<r, r>> : r \in Inputs}
  /\ stack = [p \in Runners |-> <<>>]
  /\ result = [p \in Runners |-> NONE]

\* Call that first clamps the root's End to len(Source), in place.
CallClamping(p) ==
  /\ stack[p] = <<>>
  /\ result[p] = NONE
  /\ stack' = [stack EXCEPT ![p] = <<[path |-> <<>>, parts |-> <<>>]>>]
  /\ re' = [re EXCEPT ![p].Expr.Pos.End =
              IF @ > Len(re[p].Source) THEN Len(re[p].Source) ELSE @]
  /\ UNCHANGED result

\* FormatSyntax(re): enter formatExprSyntax(re, re.Expr).
Call(p) ==
  /\ stack[p] = <<>>
  /\ result[p] = NONE
  /\ stack' = [stack EXCEPT ![p] = <<[path |-> <<>>, parts |-> <<>>]>>]
  /\ UNCHANGED <<re, result>>

\* A rule evaluates its next formatExprSyntax(re, e.Args[i]).
Descend(p) ==
  /\ stack[p] # <<>>
  /\ LET e == TopNode(p)
         v == Visits(e)
         k == NextVisit(p)
     IN  /\ k <= Len(v)
         /\ HasArg(e, v[k])
         /\ stack' = [stack EXCEPT ![p] =
                        Append(@, [path |-> Append(Top(p).path, v[k] + 1), parts |-> <<>>])]
  /\ UNCHANGED <<re, result>>

\* A rule has its children's renderings and returns its string, to the
\* calling rule or, from the root, as the result of FormatSyntax.
Return(p) ==
  /\ stack[p] # <<>>
  /\ LET e == TopNode(p)
         out == Render(re[p], e, Top(p).parts)
         n == Len(stack[p])
     IN  /\ NextVisit(p) > Len(Visits(e))
         /\ out.status = "ok"
         /\ IF n = 1
            THEN /\ stack' = [stack EXCEPT ![p] = <<>>]
                 /\ result' = [result EXCEPT ![p] = out]
            ELSE /\ stack' = [stack EXCEPT ![p] =
                                [SubSeq(@, 1, n - 1) EXCEPT ![n - 1].parts = Append(@, out.s)]]
                 /\ UNCHANGED result
  /\ UNCHANGED re

\* Panic with a recover at the top: FormatSyntax returns the empty string.
PanicRecovered(p) ==
  /\ stack[p] # <<>>
  /\ LET e == TopNode(p)
         v == Visits(e)
         k == NextVisit(p)
     IN  IF k <= Len(v) THEN ~HasArg(e, v[k])
         ELSE Render(re[p], e, Top(p).parts).status = "panic"
  /\ stack' = [stack EXCEPT ![p] = <<>>]
  /\ result' = [result EXCEPT ![p] = Ok("")]
  /\ UNCHANGED re

\* An index or a slice is out of range: the panic unwinds the whole call.
Panic(p) ==
  /\ stack[p] # <<>>
  /\ LET e == TopNode(p)
         v == Visits(e)
         k == NextVisit(p)
     IN  IF k <= Len(v) THEN ~HasArg(e, v[k])
         ELSE Render(re[p], e, Top(p).parts).status = "panic"
  /\ stack' = [stack EXCEPT ![p] = <<>>]
  /\ result' = [result EXCEPT ![p] = PANIC]
  /\ UNCHANGED re

Next == \E p \in Runners : Call(p) \/ Descend(p) \/ Return(p) \/ Panic(p)

\* Two calls over the same input.
Spec == Init /\ [][Next]_vars

\* Two calls over inputs chosen independently.
InitPair ==
  /\ re \in PairInputs \X PairInputs
  /\ stack = [p \in Runners |-> <<>>]
  /\ result = [p \in Runners |-> NONE]

SpecPair == InitPair /\ [][Next]_vars

Done(p) == result[p] # NONE

(***************************************************************************)
(* Vocabulary of the properties.  These definitions restate the            *)
(* specification (arity table, rendering rules); the properties compare    *)
(* them with what the calls produce.                                       *)
(***************************************************************************)
\* Source[e.Begin:e.End], where the span lies within Source.
SpanInSource(r, e) == Begin(e) <= End(e) /\ End(e) <= Len(r.Source)

SpanText(r, e) == SubSeq(r.Source, Begin(e) + 1, End(e))

\* The variants that have a rendering rule.
RuledOps ==
  {OpChar, OpLiteral, OpString, OpEscape, OpEscapeMeta, OpEscapeOctal, OpEscapeHex,
   OpEscapeHexFull, OpEscapeUni, OpEscapeUniFull, OpPosixClass, OpQuote, OpCaret,
   OpDollar, OpDot, OpCharRange, OpCharClass, OpNegCharClass, OpConcat, OpAlt,
   OpCapture, OpNamedCapture, OpGroup, OpGroupWithFlags, OpFlagOnlyGroup, OpRepeat,
   OpPlus, OpStar, OpQuestion, OpNonGreedy}

NoRule(op) == op \notin RuledOps

\* Variants rendered from their own span text.
SpanOps ==
  {OpChar, OpLiteral, OpString, OpEscape, OpEscapeMeta, OpEscapeOctal, OpEscapeHex,
   OpEscapeHexFull, OpEscapeUni, OpEscapeUniFull, OpPosixClass, OpQuote}

\* Variants whose Args[1] is a text argument (count, name, flags).
TextArgOps == {OpRepeat, OpNamedCapture, OpGroupWithFlags}

UnaryOps == {OpCapture, OpGroup, OpFlagOnlyGroup, OpPlus, OpStar, OpQuestion, OpNonGreedy}

JoinedOps == {OpConcat, OpAlt, OpCharClass, OpNegCharClass}

\* The arity table: TRUE when n Args fit the variant.
ArityFits(op, n) ==
  CASE op \in JoinedOps \cup {OpLiteral} -> TRUE
    [] op \in TextArgOps \cup {OpCharRange} -> n = 2
    [] op \in UnaryOps \cup {OpPossessive} -> n = 1
    [] OTHER -> n = 0

\* The number of Args the rendering rule of a variant reads.
ArgsRead(op) ==
  CASE op \in TextArgOps \cup {OpCharRange} -> 2
    [] op \in UnaryOps -> 1
    [] OTHER -> 0

\* The 0-based Args positions a rule renders as sub-expressions.
ExprSlots(e) ==
  CASE e.Op \in JoinedOps -> 0..(Len(e.Args) - 1)
    [] e.Op = OpCharRange -> {0, 1}
    [] e.Op \in TextArgOps \cup UnaryOps -> {0}
    [] OTHER -> {}

RECURSIVE AllNodes(_)
AllNodes(e) == {e} \cup UNION {AllNodes(e.Args[i]) : i \in 1..Len(e.Args)}

\* The nodes reached as sub-expressions from e.
RECURSIVE ExprNodes(_)
ExprNodes(e) ==
  {e} \cup UNION {ExprNodes(e.Args[i + 1]) : i \in {j \in ExprSlots(e) : j < Len(e.Args)}}

\* A node on which a rule's index or slice goes out of range.
Trouble(r, n) ==
  \/ Len(n.Args) < ArgsRead(n.Op)
  \/ n.Op \in SpanOps /\ ~SpanInSource(r, n)
  \/ n.Op \in TextArgOps /\ Len(n.Args) >= 2 /\ ~SpanInSource(r, n.Args[2])

\* The <<node, rendering>> pairs in the state of call p: the children each
\* active rule has formatted, and the root once FormatSyntax has returned.
FrameObs(p, j) ==
  LET f == stack[p][j]
      e == NodeAt(re[p].Expr, f.path)
  IN  {<<Arg(e, Visits(e)[i]), f.parts[i]>> : i \in 1..Len(f.parts)}

Obs(p) ==
  UNION {FrameObs(p, j) : j \in 1..Len(stack[p])}
    \cup (IF result[p].status = "ok" THEN {<<re[p].Expr, result[p].s>>} ELSE {})

\* The rendering of a sub-expression.
Fmt(r, e) == formatExprSyntax(r, e).s

(***************************************************************************)
(* C1.  A node whose Op has no rendering rule renders as "<op=N>", N the   *)
(* decimal value of the tag, whatever its Pos and Args.                    *)
(***************************************************************************)
\* C1 as stated: wherever such a node sits in an otherwise well-formed tree,
\* FormatSyntax does not fail.
C1_NeverFailsOnNoRuleNode ==
  \A p \in Runners :
    LET r == re[p]
        ns == AllNodes(r.Expr)
    IN  ( /\ Done(p)
          /\ \E n \in ns : NoRule(n.Op)
          /\ \A n \in ns :
               NoRule(n.Op) \/ (ArityFits(n.Op, Len(n.Args)) /\ SpanInSource(r, n)) )
        => result[p].status = "ok"

\* C1 amended: a node with no rendering rule that is formatted as a
\* sub-expression (the root, an element of Concat, Alt, CharClass or
\* NegCharClass, Args[0] of a wrapper, a bound of a CharRange) renders as
\* "<op=N>" whatever its Pos and Args, and the call does not fail because of
\* it: it returns a string when no other formatted node has too few Args or
\* an unreadable span.  formatExprSyntax applied to such a node returns the
\* placeholder wherever the node sits.
C1_PlaceholderWhereFormatted ==
  \A p \in Runners :
    /\ \A o \in Obs(p) :
         NoRule(o[1].Op) => o[2] = "<op=" \o ToString(o[1].Op) \o ">"
    /\ Done(p) =>
         \A n \in AllNodes(re[p].Expr) :
           NoRule(n.Op) => formatExprSyntax(re[p], n) = Ok("<op=" \o ToString(n.Op) \o ">")
    /\ ( /\ Done(p)
         /\ \A n \in ExprNodes(re[p].Expr) : NoRule(n.Op) \/ ~Trouble(re[p], n) )
       => result[p].status = "ok"

\* A sentinel node with a span outside Source, as the second element of a
\* Concat, has been rendered and the Concat completed around it.
C1_Witness ==
  /\ re[1].Expr.Op = OpConcat
  /\ re[1].Expr.Args = <<KChar, KNone>>
  /\ result[1] = Ok("{a <op=0>}")

(***************************************************************************)
(* C3.  Trees that violate the arity table.                                *)
(***************************************************************************)
\* C3 as stated: FormatSyntax returns a string for every tree that has a
\* node whose Args length does not fit the arity table (all spans lying
\* within Source).
C3_NeverCrashesOnArityViolation ==
  \A p \in Runners :
    LET r == re[p]
        ns == AllNodes(r.Expr)
    IN  ( /\ Done(p)
          /\ \E n \in ns : ~ArityFits(n.Op, Len(n.Args))
          /\ \A n \in ns : SpanInSource(r, n) )
        => result[p].status = "ok"

\* C3 amended: FormatSyntax panics exactly when it formats a node that has
\* fewer Args than its rule reads (Repeat, CharRange, NamedCapture,
\* GroupWithFlags with fewer than 2; Capture, Group, FlagOnlyGroup, Star,
\* Plus, Question, NonGreedy with 0) or whose rule slices a span outside
\* Source; on every other arity violation (surplus Args, Args on a leaf
\* variant, Possessive without Args) it returns a string.
C3_PanicsExactlyOnMissingArgs ==
  \A p \in Runners :
    Done(p) =>
      ( result[p] = PANIC <=> \E n \in ExprNodes(re[p].Expr) : Trouble(re[p], n) )

\* A Repeat with one Arg, every span within Source, has made the call panic.
C3_Witness ==
  /\ re[1].Expr.Op = OpRepeat
  /\ re[1].Expr.Args = <<KChar>>
  /\ result[1] = PANIC

(***************************************************************************)
(* C4.  Brace disambiguation.                                              *)
(***************************************************************************)
\* The rendering s of node n is its span text between single quotes exactly
\* when n is a Char or Literal whose span text is "{" or "}".
BraceRule(r, n, s) ==
  LET t == SpanText(r, n)
  IN  SpanInSource(r, n) =>
        /\ (s = "'" \o t \o "'") <=> (n.Op \in {OpChar, OpLiteral} /\ t \in {"{", "}"})
        /\ (n.Op \in {OpChar, OpLiteral} /\ t = "{") => s = "'{'"
        /\ (n.Op \in {OpChar, OpLiteral} /\ t = "}") => s = "'}'"

\* C4: a node is rendered as its span text between single quotes, '{' or
\* '}', exactly when it is a Char or Literal whose span text is "{" or "}";
\* no other variant and no other span text is quoted.  This holds of every
\* rendering the calls produce, at the root and below it, and of
\* formatExprSyntax applied to any node of the tree.
C4_BraceQuotedExactly ==
  \A p \in Runners :
    /\ \A o \in Obs(p) : BraceRule(re[p], o[1], o[2])
    /\ Done(p) =>
         \A n \in AllNodes(re[p].Expr) :
           LET out == formatExprSyntax(re[p], n)
           IN  out.status = "ok" => BraceRule(re[p], n, out.s)

\* A Char spanning "}" two levels below the root has been rendered as '}'.
C4_Witness ==
  /\ Len(stack[1]) = 2
  /\ NodeAt(re[1].Expr, stack[1][2].path) = KGroup
  /\ stack[1][2].parts = <<"'}'">>

(***************************************************************************)
(* C5.  Text fidelity.                                                     *)
(***************************************************************************)
\* The outcome out of formatting node n is its span text (leaf-text
\* variants) or "(q " + span text + ")" (Quote).
TextRule(r, n, out) ==
  LET t == SpanText(r, n)
  IN  SpanInSource(r, n) =>
        /\ ( /\ n.Op \in SpanOps \ {OpQuote}
             /\ ~(n.Op \in {OpChar, OpLiteral} /\ t \in {"{", "}"}) )
           => out = Ok(t)
        /\ n.Op = OpQuote => out = Ok("(q " \o t \o ")")

\* C5: a Char, Literal, String, Escape* or PosixClass node with a span
\* within Source renders as exactly Source[Begin:End] (the single brace of a
\* Char or Literal apart), whatever its Args; a Quote renders as
\* "(q " + Source[Begin:End] + ")".
C5_TextFidelity ==
  \A p \in Runners :
    /\ \A o \in Obs(p) : TextRule(re[p], o[1], Ok(o[2]))
    /\ Done(p) =>
         \A n \in AllNodes(re[p].Expr) : TextRule(re[p], n, formatExprSyntax(re[p], n))

\* A Quote that carries an Arg and spans "{}" has been rendered.
C5_Witness ==
  /\ re[1].Expr = Node(OpQuote, 3, 5, <<KChar>>)
  /\ result[1] = Ok("(q {})")

(***************************************************************************)
(* C6.  Concat, Alt, CharClass, NegCharClass.                              *)
(***************************************************************************)
OpenText(op) ==
  CASE op = OpConcat -> "{" [] op = OpAlt -> "(or " [] op = OpCharClass -> "["
    [] op = OpNegCharClass -> "[^"

CloseText(op) ==
  CASE op = OpConcat -> "}" [] op = OpAlt -> ")" [] op = OpCharClass -> "]"
    [] op = OpNegCharClass -> "]"

\* The parts in order, one space between neighbours, none before or after.
RECURSIVE SpaceSeparated(_)
SpaceSeparated(parts) ==
  IF Len(parts) = 0 THEN ""
  ELSE IF Len(parts) = 1 THEN parts[1]
  ELSE SpaceSeparated(SubSeq(parts, 1, Len(parts) - 1)) \o " " \o parts[Len(parts)]

\* C6: a Concat, Alt, CharClass or NegCharClass with N >= 0 Args renders as
\* its opening text, the renderings of Args[0..N-1] in order separated by
\* single spaces, and its closing text; a Concat without Args is "{}".
C6_JoinedRendering ==
  \A p \in Runners : \A o \in Obs(p) :
    LET n == o[1]
    IN  n.Op \in JoinedOps =>
          /\ o[2] = OpenText(n.Op)
                      \o SpaceSeparated([i \in 1..Len(n.Args) |-> Fmt(re[p], n.Args[i])])
                      \o CloseText(n.Op)
          /\ (n.Op = OpConcat /\ n.Args = <<>>) => o[2] = "{}"

\* An Alt of two branches has been rendered.
C6_Witness ==
  /\ re[1].Expr.Op = OpAlt
  /\ re[1].Expr.Args = <<KBrace, KRange>>
  /\ result[1] = Ok("(or '{' 0-9)")

(***************************************************************************)
(* C7.  CharRange inside a CharClass.                                      *)
(***************************************************************************)
RangeExample == Node(OpCharClass, 0, Len(SourceText), <<KChar, KRange>>)

RangeRule(p) ==
  \A o \in Obs(p) :
    (o[1].Op = OpCharRange /\ Len(o[1].Args) >= 2) =>
      o[2] = Fmt(re[p], o[1].Args[1]) \o "-" \o Fmt(re[p], o[1].Args[2])

\* C7 as stated: the CharClass over [Char "a", CharRange(Char "0", Char "9")]
\* formats as "[a0-9]", and a CharRange renders as <lower>-<upper>.
C7_ExampleWithoutSpace ==
  \A p \in Runners :
    /\ (Done(p) /\ re[p].Expr = RangeExample) => result[p] = Ok("[a0-9]")
    /\ RangeRule(p)

\* C7 amended: that CharClass formats as "[a 0-9]", its elements separated
\* by one space; a CharRange renders as <lower>-<upper> with no wrapper and
\* no spaces around the dash.
C7_ExampleSpaceJoined ==
  \A p \in Runners :
    /\ (Done(p) /\ re[p].Expr = RangeExample) => result[p] = Ok("[a 0-9]")
    /\ RangeRule(p)

\* The example tree has been formatted.
C7_Witness ==
  /\ re[1].Expr = RangeExample
  /\ result[1].status = "ok"

(***************************************************************************)
(* C8.  Text arguments.                                                    *)
(***************************************************************************)
HeadText(op) ==
  CASE op = OpRepeat -> "(repeat " [] op = OpNamedCapture -> "(capture "
    [] op = OpGroupWithFlags -> "(group "

\* Repeat, NamedCapture, GroupWithFlags print Args[1] as its raw span text.
TextArgRule(p) ==
  \A o \in Obs(p) :
    LET n == o[1]
    IN  (n.Op \in TextArgOps /\ Len(n.Args) >= 2) =>
          o[2] = HeadText(n.Op) \o Fmt(re[p], n.Args[1]) \o " "
                   \o SpanText(re[p], n.Args[2]) \o ")"

\* C8 as stated: FlagOnlyGroup too prints its text argument Args[0] as the
\* raw span text, whatever the Op and Args of that node.
C8_FlagsPrintedRaw ==
  \A p \in Runners :
    /\ TextArgRule(p)
    /\ \A o \in Obs(p) :
         LET n == o[1]
         IN  (n.Op = OpFlagOnlyGroup /\ Len(n.Args) >= 1
                /\ SpanInSource(re[p], n.Args[1])) =>
               o[2] = "(flags " \o SpanText(re[p], n.Args[1]) \o ")"

\* C8 amended: Repeat, NamedCapture and GroupWithFlags print Args[1] as its
\* raw span text whatever its Op and Args; FlagOnlyGroup formats Args[0] as a
\* sub-expression, which is the raw span text when Args[0] is a String (or
\* another leaf-text variant, the single brace of a Char or Literal apart).
C8_TextArgsRawFlagsFormatted ==
  \A p \in Runners :
    /\ TextArgRule(p)
    /\ \A o \in Obs(p) :
         LET n == o[1]
         IN  (n.Op = OpFlagOnlyGroup /\ Len(n.Args) >= 1) =>
               /\ o[2] = "(flags " \o Fmt(re[p], n.Args[1]) \o ")"
               /\ (n.Args[1].Op = OpString /\ SpanInSource(re[p], n.Args[1])) =>
                    o[2] = "(flags " \o SpanText(re[p], n.Args[1]) \o ")"

\* A GroupWithFlags whose flags argument is a Literal spanning "{" has been
\* rendered: the brace is printed raw.
C8_Witness ==
  /\ re[1].Expr.Op = OpGroupWithFlags
  /\ re[1].Expr.Args = <<KRange, KBrace>>
  /\ result[1] = Ok("(group 0-9 {)")

(***************************************************************************)
(* C9.  Unary quantifiers.                                                 *)
(***************************************************************************)
QuantifierName(op) ==
  CASE op = OpPlus -> "+" [] op = OpStar -> "*" [] op = OpQuestion -> "?"
    [] op = OpNonGreedy -> "non-greedy" [] op = OpPossessive -> "possessive"

\* C9: Plus, Star, Question, NonGreedy and Possessive each render as
\* "(<name> <child>)" around the rendering of Args[0].
C9_UnaryWrap ==
  \A p \in Runners : \A o \in Obs(p) :
    LET n == o[1]
    IN  ( /\ n.Op \in {OpPlus, OpStar, OpQuestion, OpNonGreedy, OpPossessive}
          /\ Len(n.Args) >= 1
          /\ formatExprSyntax(re[p], n.Args[1]).status = "ok" )
        => o[2] = "(" \o QuantifierName(n.Op) \o " " \o Fmt(re[p], n.Args[1]) \o ")"

(***************************************************************************)
(* C10.  Determinism and read-only access.                                 *)
(***************************************************************************)
\* C10: no step of a call changes a Regexp (Source, Pos, Op, Args), and two
\* calls over equal inputs, run one after the other or interleaved step by
\* step, return the same outcome, the value of the function on that input.
C10_DeterministicReadOnly ==
  /\ [][re' = re]_vars
  /\ [](\A p, q \in Runners :
          (Done(p) /\ Done(q) /\ re[p] = re[q]) => result[p] = result[q])
  /\ [](\A p \in Runners : Done(p) => result[p] = FormatSyntax(re[p]))

\* Both calls over the same two-level tree have returned.
C10_Witness ==
  /\ re[1] = re[2]
  /\ re[1].Expr.Op = OpConcat
  /\ re[1].Expr.Args = <<KRange, KGroup>>
  /\ result[1].status = "ok"
  /\ result[2].status = "ok"

(***************************************************************************)
(* C2.  Injectivity.                                                       *)
(***************************************************************************)
\* A tree is well-formed when every node's Args fit the arity table, no tag
\* is a sentinel or unknown, and every span lies within Source.
WellFormed(r) ==
  \A n \in AllNodes(r.Expr) :
    /\ ArityFits(n.Op, Len(n.Args))
    /\ n.Op > OpNone /\ n.Op < OpNone2
    /\ SpanInSource(r, n)

\* What the claim compares: Op, Args count and order at every node, and the
\* source text of every leaf.
RECURSIVE Shape(_, _)
Shape(r, e) ==
  [op |-> e.Op,
   text |-> IF e.Args = <<>> THEN SpanText(r, e) ELSE "",
   kids |-> [i \in 1..Len(e.Args) |-> Shape(r, e.Args[i])]]

\* C2 as stated: two well-formed trees that differ in some node's Op, Args
\* count, Args order or leaf text never format identically.
C2_Injective ==
  ( /\ Done(1) /\ Done(2)
    /\ WellFormed(re[1]) /\ WellFormed(re[2])
    /\ Shape(re[1], re[1].Expr) # Shape(re[2], re[2].Expr) )
  => result[1] # result[2]

\* The characters the formatter writes itself.
Punctuation == {" ", "{", "}", "(", ")", "[", "]", "-", "^", ".", "$", "<", "'"}

PlainText(t) == t # "" /\ \A i \in 1..Len(t) : SubSeq(t, i, i) \notin Punctuation

LeafOps == SpanOps \ {OpQuote}

\* The trees the amended claim covers: well-formed, every printed text
\* non-empty and free of punctuation, text arguments Strings, CharRange
\* bounds leaves, class elements leaves or CharRanges.
Unambiguous(r) ==
  /\ WellFormed(r)
  /\ \A n \in ExprNodes(r.Expr) :
       /\ n.Op \in SpanOps => PlainText(SpanText(r, n))
       /\ n.Op \in TextArgOps =>
            n.Args[2].Op = OpString /\ PlainText(SpanText(r, n.Args[2]))
       /\ n.Op = OpFlagOnlyGroup => n.Args[1].Op = OpString
       /\ n.Op = OpCharRange => \A i \in 1..2 : n.Args[i].Op \in LeafOps
       /\ n.Op \in {OpCharClass, OpNegCharClass} =>
            \A i \in 1..Len(n.Args) : n.Args[i].Op \in LeafOps \cup {OpCharRange}

\* What the formatter prints of a tree: the variant (one for all leaf-text
\* variants), the text of leaves and text arguments, and the printed
\* children; nothing below a Literal or a Possessive.
RECURSIVE Printed(_, _)
Printed(r, e) ==
  [op |-> IF e.Op \in LeafOps THEN OpString ELSE e.Op,
   text |-> IF e.Op \in SpanOps THEN SpanText(r, e)
            ELSE IF e.Op \in TextArgOps THEN SpanText(r, e.Args[2])
            ELSE "",
   kids |-> IF e.Op \in JoinedOps THEN [i \in 1..Len(e.Args) |-> Printed(r, e.Args[i])]
            ELSE IF e.Op = OpCharRange
              THEN <<Printed(r, e.Args[1]), Printed(r, e.Args[2])>>
            ELSE IF e.Op \in TextArgOps \cup UnaryOps THEN <<Printed(r, e.Args[1])>>
            ELSE <<>>]

\* C2 amended: on well-formed trees whose printed texts are non-empty and
\* free of the formatter's punctuation (and whose text arguments, range
\* bounds and class elements are the nodes the taxonomy prescribes), two
\* trees format identically exactly when they agree in what is printed:
\* they may differ in the leaf-text variant of a leaf (Char, Literal, String,
\* Escape*, PosixClass), in the Args of a Literal and below a Possessive,
\* and in nothing else.
C2_InjectiveOnPrinted ==
  ( /\ Done(1) /\ Done(2)
    /\ Unambiguous(re[1]) /\ Unambiguous(re[2]) )
  => ( result[1] = result[2]
         <=> Printed(re[1], re[1].Expr) = Printed(re[2], re[2].Expr) )

\* Two Concats with the same elements in opposite order have both been
\* formatted, to different strings.
C2_Witness ==
  /\ re[1].Expr = Node(OpConcat, 0, 2, <<PChar, PStr>>)
  /\ re[2].Expr = Node(OpConcat, 0, 2, <<PStr, PChar>>)
  /\ re[1].Source = re[2].Source
  /\ result[1] = Ok("{a 0}")
  /\ result[2] = Ok("{0 a}")

====
